---------------------------- MODULE Spec2Model ----------------------------
(***************************************************************************)
(* A model of the alignment engine of KRR-Oxford/Onto-PLM (DeepOnto):      *)
(*   src/src/deeponto/models/align/onto_align.py   class OntoAlign         *)
(*   src/src/deeponto/utils/general_utils.py       sort_dict_by_values     *)
(*                                                                         *)
(* Four specifications share the module:                                   *)
(*   SpecStore  sequences of add on one ranked mapping store               *)
(*   SpecBatch  batched_lab_products_for_ent, one loop iteration a step    *)
(*   SpecPair   switch / renew / pair_score on one engine                  *)
(*   Spec       global_match: sequential and multi-process runs of both    *)
(*              directions, checkpoints, kill and resume                   *)
(***************************************************************************)
EXTENDS Integers, Sequences, FiniteSets, TLC

VARIABLES
    \* ---- SpecStore
    st,             \* the store under test: [n_best, ranked]
    nadds,          \* number of add calls made
    \* ---- SpecBatch
    b_src_labs,     \* src_onto.idx2labs[src_ent_id]
    b_cand_labs,    \* tgt_onto.idx2labs[c] for each candidate c of tgt_cands, in order
    batch_size,     \* the batch_size argument
    lab_products,   \* first result of lab_products_for_ent
    product_lens,   \* second result of lab_products_for_ent
    batches,        \* the list `batches`
    cur_batch,      \* the AttrDict `cur_batch`
    cur_lab_pointer,\* the int `cur_lab_pointer`
    b_i,            \* the loop variable i (0-based)
    b_pc,           \* "start" | "loop" | "returned" | "assert_failed"
    \* ---- the engine (SpecPair, Spec): inputs fixed at construction
    onto_size,      \* len(idx2class) of the two catalogs "S" and "T"
    scorer,         \* which injected scoring function the engine runs with
    \* ---- the engine object
    src_onto,       \* self.src_onto: a reference to catalog "S" or "T"
    tgt_onto,       \* self.tgt_onto
    flag,           \* self.flag, the last value drawn from self.flag_set
    n_best,         \* self.n_best
    disk,           \* saved_path: what each <<mode, flag>> path holds
    calls,          \* number of public calls made on the engine
    p_call,         \* the last pair_score call: its arguments and its store
    renewed,        \* the last renew() call made on the engine: where from, how it ended
    save_step,      \* the save_step of global_mappings_for_ent_chunk
    mappings,       \* self.src2tgt_mappings and self.tgt2src_mappings, by flag
    \* ---- the controller inside global_match
    pc,             \* "idle" | "run_start" | "seq" | "par" | "raised"
                    \* (SpecEnt: "idle" | "ent_chunk" | "ent_batch" | "raised")
    gm,             \* the global_match call under way: num_procs, run, log
    pos,            \* sequential chunk loop: how many ids have been iterated
    since_save,     \* entities computed since the last checkpoint write
    last_gap,       \* entities computed between the last two checkpoint writes
    restarts,       \* one entry per kill of the process and rebuild of the engine
    \* ---- a multi-process run
    workers,        \* the worker processes, worker i having proc_idx i - 1
    return_dict,    \* the manager dict, as its items in insertion order
    run_init,       \* the active store when the run under way (or last ended) began
    run_flag,       \* self.flag when that run began
    par_end         \* "none" | "finished" | "raised": how the last parallel run ended

storeVars == <<st, nadds>>
batchVars == <<b_src_labs, b_cand_labs, batch_size, lab_products, product_lens,
               batches, cur_batch, cur_lab_pointer, b_i, b_pc>>
inputVars == <<onto_size, scorer>>
dirVars == <<src_onto, tgt_onto, flag>>
pairVars == <<n_best, disk, calls, p_call, renewed>>
ctlVars == <<save_step, mappings, pc, gm, pos, since_save, last_gap, restarts>>
parVars == <<workers, return_dict, run_init, run_flag, par_end>>
engineVars == <<inputVars, dirVars, pairVars, ctlVars, parVars>>
vars == <<storeVars, batchVars, engineVars>>

(***************************************************************************)
(* Bounds of the model.                                                    *)
(***************************************************************************)
MaxNBest == 2
MaxAdds == 3
MaxScore == 2
MaxTargets == 3
MaxSrcLabs == 2
MaxTgtLabs == 2
MaxCands == 3
MaxBatchSize == 3
MaxSrc == 3
MaxTgt == 2
MaxKind == 2
MaxCalls == 2
MaxSeqSrc == 5
MaxSaveStep == 2
MaxProcs == 2
MaxRestarts == 1
MaxSwitches == 3

Min(a, b) == IF a <= b THEN a ELSE b
Max(a, b) == IF a >= b THEN a ELSE b

RECURSIVE SumSeq(_)
SumSeq(s) == IF s = <<>> THEN 0 ELSE Head(s) + SumSeq(Tail(s))

RECURSIVE Flatten(_)
Flatten(ss) == IF ss = <<>> THEN <<>> ELSE Head(ss) \o Flatten(Tail(ss))

(***************************************************************************)
(* general_utils.sort_dict_by_values.  A dict is the sequence of its       *)
(* <<key, value>> items in insertion order.                                *)
(***************************************************************************)

\* sorted(): stable; with reverse=True equal values keep their original order.
\* One insertion step: `item` goes behind every element that does not sort
\* strictly after it.
RECURSIVE InsertSorted(_, _, _)
InsertSorted(sorted, item, desc) ==
    IF sorted = <<>> THEN <<item>>
    ELSE IF (desc /\ Head(sorted)[2] >= item[2]) \/ (~desc /\ Head(sorted)[2] <= item[2])
         THEN <<Head(sorted)>> \o InsertSorted(Tail(sorted), item, desc)
         ELSE <<item>> \o sorted

RECURSIVE PySorted(_, _)
PySorted(items, desc) ==
    IF items = <<>> THEN <<>>
    ELSE InsertSorted(PySorted(SubSeq(items, 1, Len(items) - 1), desc),
                      items[Len(items)], desc)

\* The slice s[:k], negative k counting from the end.
PySliceTo(s, k) ==
    IF k >= 0 THEN SubSeq(s, 1, Min(k, Len(s)))
    ELSE SubSeq(s, 1, Max(Len(s) + k, 0))

sort_dict_by_values_no_truth_test(dic, desc, top_k) ==
    PySliceTo(PySorted(dic, desc), top_k)

sort_dict_by_values_ascending(dic, desc, top_k) ==
    LET k == IF top_k = 0 THEN Len(dic) ELSE top_k
    IN  PySliceTo(PySorted(dic, ~desc), k)

sort_dict_by_values_no_slice(dic, desc, top_k) ==
    PySorted(dic, desc)

\* top_k = len(dic) if not top_k else top_k: a top_k of 0 is falsy.
sort_dict_by_values(dic, desc, top_k) ==
    LET k == IF top_k = 0 THEN Len(dic) ELSE top_k
    IN  PySliceTo(PySorted(dic, desc), k)

(***************************************************************************)
(* The ranked mapping store (OntoMappings).  ranked is a function from the *)
(* source keys present to the inner dict of each, a sequence of            *)
(* <<target key, score>> items.  An EntityMapping is [src, tgt, score].    *)
(***************************************************************************)
EmptyRanked == [k \in {} |-> <<>>]

OntoMappings(n) == [n_best |-> n, ranked |-> EmptyRanked]

EntityMapping(s, t, sc) == [type |-> "EntityMapping", src |-> s, tgt |-> t, score |-> sc]

\* An EntityMappingList: a list of EntityMapping.
EntityMappingList(ems) == [type |-> "EntityMappingList", items |-> ems]

DictKeys(dic) == {dic[i][1] : i \in 1..Len(dic)}

\* dic[key] = value: an existing key keeps its place, a new one goes last.
DictSet(dic, key, value) ==
    IF key \in DictKeys(dic)
    THEN [i \in 1..Len(dic) |-> IF dic[i][1] = key THEN <<key, value>> ELSE dic[i]]
    ELSE Append(dic, <<key, value>>)

\* add: insert or overwrite (src, tgt), then re-rank and truncate that source
\* key's inner dict with sort_dict_by_values(top_k = n_best).
add(store, em) ==
    LET inner == IF em.src \in DOMAIN store.ranked THEN store.ranked[em.src] ELSE <<>>
        ranked_inner == sort_dict_by_values(DictSet(inner, em.tgt, em.score), TRUE, store.n_best)
    IN  [store EXCEPT !.ranked =
            [k \in (DOMAIN store.ranked) \cup {em.src} |->
                IF k = em.src THEN ranked_inner ELSE store.ranked[k]]]

\* add_many(*args): add each argument in turn.  add reads the fields of an
\* EntityMapping; handed anything else (a list) it raises before it changes
\* the store.
RECURSIVE add_many(_, _)
add_many(store, args) ==
    IF args = <<>> THEN [raised |-> FALSE, store |-> store]
    ELSE IF Head(args).type # "EntityMapping" THEN [raised |-> TRUE, store |-> store]
    ELSE add_many(add(store, Head(args)), Tail(args))

NonIncreasing(dic) == \A i \in 1..(Len(dic) - 1) : dic[i][2] >= dic[i + 1][2]

(***************************************************************************)
(* Batch construction: lab_products_for_ent and                            *)
(* batched_lab_products_for_ent.  A label is a value; a candidate is given *)
(* by its label list.                                                      *)
(***************************************************************************)

\* text_utils.lab_product: the Cartesian product of two label lists in
\* itertools.product order, as two parallel lists.
RECURSIVE lab_product(_, _)
lab_product(src_ent_labs, tgt_ent_labs) ==
    IF src_ent_labs = <<>> THEN [src_out |-> <<>>, tgt_out |-> <<>>]
    ELSE LET rest == lab_product(Tail(src_ent_labs), tgt_ent_labs)
         IN  [src_out |-> [j \in 1..Len(tgt_ent_labs) |-> Head(src_ent_labs)] \o rest.src_out,
              tgt_out |-> tgt_ent_labs \o rest.tgt_out]

\* list(zip(a, b))
Zip(a, b) == [k \in 1..Min(Len(a), Len(b)) |-> <<a[k], b[k]>>]

\* The loop of lab_products_for_ent over tgt_cands, from the accumulators.
RECURSIVE lab_products_loop(_, _, _, _, _)
lab_products_loop(src_ent_labs, cands, src_sents, tgt_sents, lens) ==
    IF cands = <<>>
    THEN [labs |-> Zip(src_sents, tgt_sents), lens |-> lens]
    ELSE LET out == lab_product(src_ent_labs, Head(cands))
         IN  lab_products_loop(src_ent_labs, Tail(cands),
                               src_sents \o out.src_out,
                               tgt_sents \o out.tgt_out,
                               Append(lens, Len(out.src_out)))

lab_products_for_ent_phantom_group(src_ent_labs, cands) ==
    IF cands = <<>> THEN [labs |-> <<>>, lens |-> <<0>>]
    ELSE lab_products_loop(src_ent_labs, cands, <<>>, <<>>, <<>>)

lab_products_for_ent(src_ent_labs, cands) ==
    lab_products_loop(src_ent_labs, cands, <<>>, <<>>, <<>>)

PySlice_from_start(s, a, b) == SubSeq(s, 1, Min(b - a, Len(s)))

\* lab_products[a : b], 0-based and half-open.
PySlice(s, a, b) == SubSeq(s, a + 1, Min(b, Len(s)))

NewBatch == [labs |-> <<>>, lens |-> <<>>]

CollectNow_no_last_flush(lens, i, n, size) ==
    SumSeq(lens) > size

CollectNow_only_last(lens, i, n, size) ==
    i = n - 1

\* sum(cur_batch.lens) > batch_size or i == len(product_lens) - 1
CollectNow(lens, i, n, size) ==
    SumSeq(lens) > size \/ i = n - 1

\* The labels of the model: source label k is k, label j of the candidate at
\* position c is <<c, j>>.
LabList(n) == [k \in 1..n |-> k]
CandLabs(c, n) == [j \in 1..n |-> <<c, j>>]
BatchSizes == (0 - 1)..MaxBatchSize

(***************************************************************************)
(* The engine: catalogs, directions, checkpoints.                          *)
(* A catalog is "S" (the src_onto given to __init__) or "T" (the tgt_onto);*)
(* its idx2class maps the ids 0..n-1 to the class names <<catalog, id>>.   *)
(***************************************************************************)
Catalogs == {"S", "T"}
Flags == {"src2tgt", "tgt2src"}
Modes == {"global_match", "pair_score"}

Ids(onto) == 0..(onto_size[onto] - 1)
idx2class(onto, id) == <<onto, id>>
class2idx(name) == name[2]

\* next(self.flag_set) on cycle(["src2tgt", "tgt2src"]): the value after `f`.
NextFlag(f) == IF f = "src2tgt" THEN "tgt2src" ELSE "src2tgt"

\* self.flag.split("2")[1]
FlagSuffix(f) == IF f = "src2tgt" THEN "tgt" ELSE "src"

\* getattr(self, f"{prefix}_onto") on an engine whose fields are s and t.
OntoAttr(prefix, s, t) == IF prefix = "src" THEN s ELSE t

NoFile == [exists |-> FALSE, obj |-> OntoMappings(0)]
SavedFile(store) == [exists |-> TRUE, obj |-> store]

\* load_mappings: a new OntoMappings with the engine's n_best, or the saved one
\* when the path exists (OntoMappings.from_saved gives back what was saved).
load_mappings(d, f, mode, n) ==
    IF d[<<mode, f>>].exists THEN d[<<mode, f>>].obj ELSE OntoMappings(n)

\* mappings.save_instance(f"{saved_path}/{mode}/{flag}")
save_instance(d, f, mode, store) == [d EXCEPT ![<<mode, f>>] = SavedFile(store)]

\* The injected ent_pair_score of the engine's scorer k: a deterministic score
\* in 0..2 for a class pair.
ent_pair_score(k, src_ent_id, tgt_ent_id) ==
    (k * src_ent_id + tgt_ent_id + k + 1) % 3

\* pair_score's max_num_mappings: len(getattr(self, f"{prefix}_onto").idx2class)
\* with prefix = self.flag.split("2")[1], read after the switches.
max_num_mappings_target_role(f, s, t) == onto_size[t]

max_num_mappings(f, s, t) == onto_size[OntoAttr(FlagSuffix(f), s, t)]

\* The two loops of pair_score over tbc_mappings.ranked.items(): `pairs` is the
\* sequence of <<src_ent_name, tgt_ent_name>> in iteration order.
RECURSIVE pair_score_loop(_, _)
pair_score_loop(store, pairs) ==
    IF pairs = <<>> THEN store
    ELSE LET src_ent_name == Head(pairs)[1]
             tgt_ent_name == Head(pairs)[2]
             score == ent_pair_score(scorer, class2idx(src_ent_name), class2idx(tgt_ent_name))
         IN  pair_score_loop(add(store, EntityMapping(src_ent_name, tgt_ent_name, score)),
                             Tail(pairs))

(***************************************************************************)
(* Computing global mappings: the per-entity function, the chunk loop, the *)
(* split into chunks and the controller's fold.                            *)
(***************************************************************************)

\* global_mappings_for_ent of the engine's scorer, for entity e of catalog s
\* against catalog t.  Scorer 0 is the base class: an empty EntityMappingList.
\* Any other scorer ranks every class of t and keeps the scores above 0.
global_mappings_for_ent(s, t, e) ==
    IF scorer = 0 THEN EntityMappingList(<<>>)
    ELSE EntityMappingList(
            SelectSeq([i \in 1..onto_size[t] |->
                          EntityMapping(idx2class(s, e), idx2class(t, i - 1),
                                        ent_pair_score(scorer, e, i - 1))],
                      LAMBDA em : em.score > 0))

AlreadyComputed_never(store, src_ent_name) == FALSE

AlreadyComputed_first_id(store, src_ent_name) ==
    class2idx(src_ent_name) = 0 \/ src_ent_name \in DOMAIN store.ranked

\* if src_ent_name in mappings.ranked.keys(): ... continue
AlreadyComputed(store, src_ent_name) == src_ent_name \in DOMAIN store.ranked

AfterSkip_break(p, n) == n

\* `continue`: the loop goes on with the next id.
AfterSkip(p, n) == p + 1

\* intermediate_saving and src_ent_id % save_step == 0
SaveNow_every_entity(intermediate_saving, src_ent_id, step) == intermediate_saving

SaveNow(intermediate_saving, src_ent_id, step) ==
    intermediate_saving /\ src_ent_id % step = 0

\* np.array_split(list(range(n)), k): k chunks, the first n % k one longer.
array_split_drop_remainder(n, k) ==
    [i \in 1..k |-> [j \in 1..(n \div k) |-> (i - 1) * (n \div k) + j - 1]]

array_split(n, k) ==
    [i \in 1..k |->
        LET q == n \div k
            r == n % k
            size == q + (IF i - 1 < r THEN 1 ELSE 0)
            start == (i - 1) * q + Min(i - 1, r)
        IN  [j \in 1..size |-> start + j - 1]]

\* global_mappings_for_ent_chunk run to its end without a raise, on `store`,
\* over the ids p..n-1 of catalog s: the store it leaves.
RECURSIVE chunk_result_store(_, _, _, _, _)
chunk_result_store(store, s, t, p, n) ==
    IF p >= n THEN store
    ELSE IF AlreadyComputed(store, idx2class(s, p))
         THEN chunk_result_store(store, s, t, AfterSkip(p, n), n)
         ELSE chunk_result_store(add_many(store, global_mappings_for_ent(s, t, p).items).store,
                                 s, t, p + 1, n)

\* global_mappings_for_onto on `store` for the direction s -> t.
global_mappings_for_onto(store, s, t) == chunk_result_store(store, s, t, 0, onto_size[s])

ReturnDictValues(rd) == [k \in 1..Len(rd) |-> rd[k].value]

RECURSIVE fold_return_dict_first_only(_, _)
fold_return_dict_first_only(store, values) ==
    IF values = <<>> THEN [raised |-> FALSE, store |-> store]
    ELSE add_many(store, Head(values))

\* for ent_mappings in return_dict.values(): mappings.add_many(*ent_mappings)
\* Each value is what global_mappings_for_ent_chunk returned: the list
\* mappings_for_chunk, to which every cur_mappings (an EntityMappingList) was
\* appended, so each argument of add_many is an EntityMappingList.
RECURSIVE fold_return_dict(_, _)
fold_return_dict(store, values) ==
    IF values = <<>> THEN [raised |-> FALSE, store |-> store]
    ELSE LET r == add_many(store, Head(values))
         IN  IF r.raised THEN r ELSE fold_return_dict(r.store, Tail(values))

\* What global_match does once a run has returned: after the first run
\* switch() and start the second; after the second renew() and return.
after_run_no_switch(run, s, t, f) ==
    IF run = 1
    THEN [src_onto |-> s, tgt_onto |-> t, flag |-> f, run |-> 2, pc |-> "run_start",
          log |-> <<"switch", f>>]
    ELSE [src_onto |-> s, tgt_onto |-> t, flag |-> f, run |-> 0, pc |-> "idle",
          log |-> <<"return", f>>]

after_run(run, s, t, f) ==
    IF run = 1
    THEN [src_onto |-> t, tgt_onto |-> s, flag |-> NextFlag(f), run |-> 2, pc |-> "run_start",
          log |-> <<"switch", NextFlag(f)>>]
    ELSE [src_onto |-> IF f = "src2tgt" THEN s ELSE t,
          tgt_onto |-> IF f = "src2tgt" THEN t ELSE s,
          flag |-> "src2tgt", run |-> 0, pc |-> "idle",
          log |-> <<"return", "src2tgt">>]

NoGm == [num_procs |-> 0, run |-> 0, called_with |-> "src2tgt", log |-> <<>>,
         worker_failed |-> {}, finished |-> {}]

CtlIdle ==
    /\ pc = "idle"
    /\ gm = NoGm
    /\ pos = 0
    /\ since_save = 0
    /\ last_gap = 0
    /\ restarts = <<>>

ParIdle ==
    /\ workers = <<>>
    /\ return_dict = <<>>
    /\ run_init = OntoMappings(0)
    /\ run_flag = "src2tgt"
    /\ par_end = "none"

NoRenew == [made |-> FALSE, from_flag |-> "src2tgt", after |-> 0, switches |-> 0]
NoCall == [made |-> FALSE, flag |-> "src2tgt", pairs |-> <<>>, store |-> OntoMappings(0)]

EngineIdle ==
    /\ onto_size = [c \in Catalogs |-> 0]
    /\ scorer = 0
    /\ src_onto = "S"
    /\ tgt_onto = "T"
    /\ flag = "src2tgt"
    /\ n_best = 0
    /\ disk = [path \in Modes \X Flags |-> NoFile]
    /\ calls = 0
    /\ p_call = NoCall
    /\ renewed = NoRenew
    /\ save_step = 1
    /\ mappings = [f \in Flags |-> OntoMappings(0)]
    /\ CtlIdle
    /\ ParIdle

(***************************************************************************)
(* SpecStore: any sequence of add calls on one store.                      *)
(***************************************************************************)
StoreSrcKeys == {"s0", "s1"}
StoreTgtKeys == 1..MaxTargets
Scores == 1..MaxScore

StoreIdle ==
    /\ st = OntoMappings(0)
    /\ nadds = 0

BatchIdle ==
    /\ b_src_labs = <<>>
    /\ b_cand_labs = <<>>
    /\ batch_size = 0
    /\ lab_products = <<>>
    /\ product_lens = <<>>
    /\ batches = <<>>
    /\ cur_batch = [labs |-> <<>>, lens |-> <<>>]
    /\ cur_lab_pointer = 0
    /\ b_i = 0
    /\ b_pc = "returned"

InitStore ==
    /\ \E n \in 0..MaxNBest : st = OntoMappings(n)
    /\ nadds = 0
    /\ BatchIdle
    /\ EngineIdle

StoreAdd ==
    /\ nadds < MaxAdds
    /\ \E s \in StoreSrcKeys, t \in StoreTgtKeys, sc \in Scores :
          st' = add(st, EntityMapping(s, t, sc))
    /\ nadds' = nadds + 1
    /\ UNCHANGED <<batchVars, engineVars>>

NextStore == StoreAdd

SpecStore == InitStore /\ [][NextStore]_vars

\* C4: after any sequence of add calls every source key holds at most n_best
\* target entries, and each source key's scores are non-increasing in stored
\* order.
C4_CapAndOrder ==
    \A s \in DOMAIN st.ranked :
        /\ Len(st.ranked[s]) <= st.n_best
        /\ NonIncreasing(st.ranked[s])


(***************************************************************************)
(* SpecBatch: one call of batched_lab_products_for_ent.                    *)
(***************************************************************************)
InitBatch ==
    /\ StoreIdle
    /\ EngineIdle
    /\ \E n \in 0..MaxSrcLabs : b_src_labs = LabList(n)
    /\ \E k \in 0..MaxCands : \E sizes \in [1..k -> 0..MaxTgtLabs] :
          b_cand_labs = [c \in 1..k |-> CandLabs(c, sizes[c])]
    /\ batch_size \in BatchSizes
    /\ lab_products = <<>>
    /\ product_lens = <<>>
    /\ batches = <<>>
    /\ cur_batch = NewBatch
    /\ cur_lab_pointer = 0
    /\ b_i = 0
    /\ b_pc = "start"

\* lab_products, product_lens = self.lab_products_for_ent(...); the locals.
BatchStart ==
    /\ b_pc = "start"
    /\ LET r == lab_products_for_ent(b_src_labs, b_cand_labs)
       IN  /\ lab_products' = r.labs
           /\ product_lens' = r.lens
    /\ batches' = <<>>
    /\ cur_batch' = NewBatch
    /\ cur_lab_pointer' = 0
    /\ b_i' = 0
    /\ b_pc' = "loop"
    /\ UNCHANGED <<storeVars, engineVars, b_src_labs, b_cand_labs, batch_size>>

\* One iteration of `for i in range(len(product_lens))`.
BatchLoopStep ==
    /\ b_pc = "loop"
    /\ b_i < Len(product_lens)
    /\ LET cur_length == product_lens[b_i + 1]
           cur_labs == PySlice(lab_products, cur_lab_pointer, cur_lab_pointer + cur_length)
           filled == [labs |-> cur_batch.labs \o cur_labs,
                      lens |-> Append(cur_batch.lens, cur_length)]
       IN  /\ IF CollectNow(filled.lens, b_i, Len(product_lens), batch_size)
              THEN /\ batches' = Append(batches, filled)
                   /\ cur_batch' = NewBatch
              ELSE /\ batches' = batches
                   /\ cur_batch' = filled
           /\ cur_lab_pointer' = cur_lab_pointer + cur_length
    /\ b_i' = b_i + 1
    /\ UNCHANGED <<storeVars, engineVars, b_src_labs, b_cand_labs, batch_size, lab_products,
                   product_lens, b_pc>>

BatchLabs(bs) == Flatten([k \in 1..Len(bs) |-> bs[k].labs])
BatchLens(bs) == Flatten([k \in 1..Len(bs) |-> bs[k].lens])

\* The two closing assertions, then return batches.
BatchReturn ==
    /\ b_pc = "loop"
    /\ b_i = Len(product_lens)
    /\ b_pc' = IF /\ lab_products = BatchLabs(batches)
                  /\ product_lens = BatchLens(batches)
               THEN "returned" ELSE "assert_failed"
    /\ UNCHANGED <<storeVars, engineVars, b_src_labs, b_cand_labs, batch_size, lab_products,
                   product_lens, batches, cur_batch, cur_lab_pointer, b_i>>

NextBatch == BatchStart \/ BatchLoopStep \/ BatchReturn

SpecBatch == InitBatch /\ [][NextBatch]_vars

\* The full ordered Cartesian product, stated without the code's accumulators:
\* for each candidate in order, for each source label, for each label of the
\* candidate, the pair.
FullProduct(src, cands) ==
    Flatten([c \in 1..Len(cands) |->
        Flatten([a \in 1..Len(src) |->
            [j \in 1..Len(cands[c]) |-> <<src[a], cands[c][j]>>]])])

ProductLengths(src, cands) == [c \in 1..Len(cands) |-> Len(src) * Len(cands[c])]

\* C1: for every source label list, candidate list and batch_size, the batches'
\* label pairs concatenated in order are the full ordered Cartesian product that
\* lab_products_for_ent returns, the batches' group lengths concatenated are the
\* per-candidate product lengths, and the closing assertions never fail.
C1_BatchesReproduceProduct ==
    /\ b_pc # "assert_failed"
    /\ b_pc = "returned" =>
          /\ BatchLabs(batches) = lab_products_for_ent(b_src_labs, b_cand_labs).labs
          /\ BatchLabs(batches) = FullProduct(b_src_labs, b_cand_labs)
          /\ BatchLens(batches) = ProductLengths(b_src_labs, b_cand_labs)

\* C1's case: several batches, a candidate without labels among the candidates.
C1_Witness ==
    /\ b_pc = "returned"
    /\ Len(batches) >= 2
    /\ Len(lab_products) >= 3
    /\ \E c \in 1..Len(b_cand_labs) : b_cand_labs[c] = <<>>

\* C1's empty case: no candidate at all, no batch, and the assertions pass.
C1_WitnessEmpty ==
    /\ b_pc = "returned"
    /\ b_cand_labs = <<>>
    /\ batches = <<>>

\* C10 as claimed: every batch holds at most batch_size label pairs, except a
\* batch made of a single candidate group that alone exceeds batch_size.
C10_SizeBounded ==
    b_pc = "returned" =>
        \A k \in 1..Len(batches) :
            \/ Len(batches[k].labs) <= batch_size
            \/ Len(batches[k].lens) = 1

\* C10 amended: a batch of several candidate groups holds at most batch_size
\* label pairs in the groups before its last one (the last group may take the
\* batch over batch_size).
C10_BoundedBeforeLastGroup ==
    b_pc = "returned" =>
        \A k \in 1..Len(batches) :
            LET lens == batches[k].lens
            IN  Len(lens) > 1 => SumSeq(SubSeq(lens, 1, Len(lens) - 1)) <= batch_size

\* C10's case: a batch of several groups that holds more than batch_size pairs.
C10_Witness ==
    /\ b_pc = "returned"
    /\ \E k \in 1..Len(batches) :
          /\ Len(batches[k].lens) > 1
          /\ Len(batches[k].labs) > batch_size
          /\ batch_size >= 1


\* The number of candidate groups in the batches before batch k.
GroupsBefore(bs, k) == SumSeq([j \in 1..(k - 1) |-> Len(bs[j].lens)])

\* C11: every batch, from the moment it is closed, consists of whole candidate
\* groups only: in each batch
\* sum(lens) = len(labs), the groups of the batches are the candidates in
\* order, one group per candidate, and each batch's label pairs are exactly
\* the full label products of its own candidates, also for a group that alone
\* exceeds batch_size.
C11_WholeGroupsOnly ==
    /\ b_pc = "returned" => GroupsBefore(batches, Len(batches) + 1) = Len(b_cand_labs)
    /\ \A k \in 1..Len(batches) :
          LET first == GroupsBefore(batches, k) + 1
              own == SubSeq(b_cand_labs, first, first + Len(batches[k].lens) - 1)
          IN  /\ SumSeq(batches[k].lens) = Len(batches[k].labs)
              /\ batches[k].lens = ProductLengths(b_src_labs, own)
              /\ batches[k].labs = FullProduct(b_src_labs, own)

\* C11's case: several batches, one of them holding a single group that alone
\* exceeds a positive batch_size, another holding several groups.
C11_Witness ==
    /\ b_pc = "returned"
    /\ batch_size >= 1
    /\ \E k \in 1..Len(batches) :
          Len(batches[k].lens) = 1 /\ batches[k].lens[1] > batch_size
    /\ \E k \in 1..Len(batches) : Len(batches[k].lens) >= 2

\* C12: a non-positive batch_size makes the engine fail before any work
\* starts: batched_lab_products_for_ent builds no batch and does not return
\* normally.
C12_NonPositiveFailsFast ==
    batch_size <= 0 => (b_pc # "returned" /\ batches = <<>>)


(***************************************************************************)
(* SpecPair: switch, renew and pair_score called in any order on an engine *)
(* built over catalogs of any sizes.                                       *)
(***************************************************************************)
InitPair ==
    /\ StoreIdle
    /\ BatchIdle
    /\ \E ns \in 1..MaxSrc, nt \in 1..MaxTgt : onto_size = [c \in Catalogs |-> IF c = "S" THEN ns ELSE nt]
    /\ scorer \in 0..MaxKind
    /\ src_onto = "S"
    /\ tgt_onto = "T"
    /\ flag = "src2tgt"
    /\ n_best \in 0..MaxNBest
    /\ disk = [path \in Modes \X Flags |-> NoFile]
    /\ calls = 0
    /\ p_call = NoCall
    /\ renewed = NoRenew
    /\ save_step = 1
    /\ mappings = [f \in Flags |-> load_mappings(disk, f, "global_match", n_best)]
    /\ CtlIdle
    /\ ParIdle

\* switch(): swap the two catalog references and draw the next flag.
switch ==
    /\ pc = "idle"
    /\ calls < MaxCalls
    /\ src_onto' = tgt_onto
    /\ tgt_onto' = src_onto
    /\ flag' = NextFlag(flag)
    /\ calls' = calls + 1
    /\ UNCHANGED <<storeVars, batchVars, inputVars, n_best, disk, p_call, renewed, ctlVars, parVars>>

switched_flag_only(d) == [src_onto |-> d.src_onto, tgt_onto |-> d.tgt_onto, flag |-> NextFlag(d.flag)]

\* The body of switch() on a direction record.
switched(d) == [src_onto |-> d.tgt_onto, tgt_onto |-> d.src_onto, flag |-> NextFlag(d.flag)]

\* `while self.flag != f: self.switch()` from direction d after n switches,
\* given up after MaxSwitches switches.
RECURSIVE switch_until(_, _, _)
switch_until(f, d, n) ==
    IF d.flag = f \/ n >= MaxSwitches THEN [dir |-> d, switches |-> n]
    ELSE switch_until(f, switched(d), n + 1)

\* The engine's direction after `while self.flag != f: self.switch()`.
SwitchedTo(f) ==
    switch_until(f, [src_onto |-> src_onto, tgt_onto |-> tgt_onto, flag |-> flag], 0).dir

\* renew(): switch until the flag is "src2tgt".
renew ==
    /\ pc = "idle"
    /\ calls < MaxCalls
    /\ src_onto' = SwitchedTo("src2tgt").src_onto
    /\ tgt_onto' = SwitchedTo("src2tgt").tgt_onto
    /\ flag' = SwitchedTo("src2tgt").flag
    /\ renewed' = [made |-> TRUE, from_flag |-> flag, after |-> calls,
                   switches |-> switch_until("src2tgt",
                                    [src_onto |-> src_onto, tgt_onto |-> tgt_onto, flag |-> flag],
                                    0).switches]
    /\ calls' = calls + 1
    /\ UNCHANGED <<storeVars, batchVars, inputVars, n_best, disk, p_call, ctlVars, parVars>>

\* pair_score(tbc_mappings, f).  tbc_mappings ranks, for the source class e of
\* the requested direction, the first m classes of the opposite catalog.
pair_score(f, e, m) ==
    LET d == SwitchedTo(f)
        max_num == max_num_mappings(d.flag, d.src_onto, d.tgt_onto)
        loaded == load_mappings(disk, f, "pair_score", max_num)
        pairs == [k \in 1..m |-> <<idx2class(d.src_onto, e), idx2class(d.tgt_onto, k - 1)>>]
        result == pair_score_loop(loaded, pairs)
    IN  /\ src_onto' = d.src_onto
        /\ tgt_onto' = d.tgt_onto
        /\ flag' = d.flag
        /\ n_best' = max_num
        /\ disk' = save_instance(disk, d.flag, "pair_score", result)
        /\ p_call' = [made |-> TRUE, flag |-> f, pairs |-> pairs, store |-> result]
        /\ renewed' = renewed

PairScoreCall ==
    /\ pc = "idle"
    /\ calls < MaxCalls
    /\ \E f \in Flags :
          LET d == SwitchedTo(f)
          IN  \E e \in Ids(d.src_onto), m \in 1..onto_size[d.tgt_onto] : pair_score(f, e, m)
    /\ calls' = calls + 1
    /\ UNCHANGED <<storeVars, batchVars, inputVars, ctlVars, parVars>>

NextPair == switch \/ renew \/ PairScoreCall

SpecPair == InitPair /\ [][NextPair]_vars

\* C5: pair_score, for both flags, sets n_best to the number of classes of the
\* catalog that plays the target role in the requested direction, so that no
\* scored (source, target) pair supplied in tbc_mappings is missing from the
\* resulting store.
C5_NothingTruncated ==
    p_call.made =>
        /\ flag = p_call.flag
        /\ n_best = onto_size[tgt_onto]
        /\ \A k \in 1..Len(p_call.pairs) :
              /\ p_call.pairs[k][1] \in DOMAIN p_call.store.ranked
              /\ p_call.pairs[k][2] \in DictKeys(p_call.store.ranked[p_call.pairs[k][1]])


(***************************************************************************)
(* Spec: global_match on an engine.  The controller's steps are the start  *)
(* of a run, one iteration of the sequential chunk loop, the end of a run; *)
(* in a multi-process run each worker steps through its own chunk on its   *)
(* own copy of the engine, and the controller goes on when all have ended. *)
(***************************************************************************)
fixedVars == <<storeVars, batchVars, inputVars, n_best, p_call, renewed, save_step>>

current_global_mappings_src2tgt == mappings["src2tgt"]

\* getattr(self, f"{self.flag}_mappings")
current_global_mappings == mappings[flag]

EngineBuilt(max_src) ==
    /\ StoreIdle
    /\ \E ns \in 1..max_src, nt \in 1..MaxTgt :
          onto_size = [c \in Catalogs |-> IF c = "S" THEN ns ELSE nt]
    /\ scorer \in 0..MaxKind
    /\ src_onto = "S"
    /\ tgt_onto = "T"
    /\ flag = "src2tgt"
    /\ n_best \in 1..MaxNBest
    /\ disk = [path \in Modes \X Flags |-> NoFile]
    /\ calls = 0
    /\ p_call = NoCall
    /\ renewed = NoRenew
    /\ save_step \in 1..MaxSaveStep
    /\ mappings = [f \in Flags |-> load_mappings(disk, f, "global_match", n_best)]
    /\ CtlIdle
    /\ ParIdle

InitEngine(max_src) ==
    /\ BatchIdle
    /\ EngineBuilt(max_src)

Init == InitEngine(MaxSrc)

\* global_match(num_procs): renew(), then the first run.
GlobalMatchCall(np) ==
    /\ pc = "idle"
    /\ calls < MaxCalls
    /\ src_onto' = SwitchedTo("src2tgt").src_onto
    /\ tgt_onto' = SwitchedTo("src2tgt").tgt_onto
    /\ flag' = SwitchedTo("src2tgt").flag
    /\ gm' = [num_procs |-> np, run |-> 1, called_with |-> flag, log |-> <<>>,
              worker_failed |-> {}, finished |-> {}]
    /\ pc' = "run_start"
    /\ calls' = calls + 1
    /\ par_end' = "none"
    /\ UNCHANGED <<fixedVars, disk, mappings, pos, since_save, last_gap, restarts,
                   workers, return_dict, run_init, run_flag>>

\* num_procs is falsy: global_mappings_for_onto() enters the chunk loop over
\* self.src_onto.idx2class.keys().
SeqStart ==
    /\ pc = "run_start"
    /\ gm.num_procs = 0
    /\ pc' = "seq"
    /\ pos' = 0
    /\ run_init' = current_global_mappings
    /\ run_flag' = flag
    /\ par_end' = "none"
    /\ UNCHANGED <<fixedVars, dirVars, disk, calls, mappings, gm, since_save, last_gap,
                   restarts, workers, return_dict>>

\* One iteration of the loop of global_mappings_for_ent_chunk in the controller
\* (intermediate_saving = True): skip, or compute and add and perhaps save, or
\* the per-entity computation raises.
SeqStep ==
    /\ pc = "seq"
    /\ pos < onto_size[src_onto]
    /\ LET src_ent_id == pos
           src_ent_name == idx2class(src_onto, src_ent_id)
           cur_mappings == global_mappings_for_ent(src_onto, tgt_onto, src_ent_id)
           added == add_many(current_global_mappings, cur_mappings.items).store
       IN  IF AlreadyComputed(current_global_mappings, src_ent_name)
           THEN /\ pos' = AfterSkip(pos, onto_size[src_onto])
                /\ UNCHANGED <<mappings, disk, since_save, last_gap, gm, pc>>
           ELSE \/ /\ mappings' = [mappings EXCEPT ![flag] = added]
                   /\ gm' = [gm EXCEPT !.log = Append(@, <<"entity", flag, src_onto>>)]
                   /\ IF SaveNow(TRUE, src_ent_id, save_step)
                      THEN /\ disk' = save_instance(disk, flag, "global_match", added)
                           /\ last_gap' = since_save + 1
                           /\ since_save' = 0
                      ELSE /\ disk' = disk
                           /\ last_gap' = last_gap
                           /\ since_save' = since_save + 1
                   /\ pos' = pos + 1
                   /\ pc' = pc
                \/ /\ pc' = "raised"
                   /\ UNCHANGED <<mappings, disk, since_save, last_gap, gm, pos>>
    /\ UNCHANGED <<fixedVars, dirVars, calls, restarts, parVars>>

\* The loop is over: global_mappings_for_onto saves the store, and global_match
\* goes on (switch and second run, or renew and return).
SeqFinish ==
    /\ pc = "seq"
    /\ pos >= onto_size[src_onto]
    /\ disk' = save_instance(disk, flag, "global_match", current_global_mappings)
    /\ last_gap' = since_save
    /\ since_save' = 0
    /\ LET a == after_run(gm.run, src_onto, tgt_onto, flag)
       IN  /\ src_onto' = a.src_onto
           /\ tgt_onto' = a.tgt_onto
           /\ flag' = a.flag
           /\ pc' = a.pc
           /\ gm' = [gm EXCEPT !.run = a.run,
                               !.finished = @ \cup {gm.run},
                               !.log = @ \o <<<<"persist", flag>>, a.log>>]
    /\ UNCHANGED <<fixedVars, calls, mappings, pos, restarts, parVars>>

AllJoined_no_barrier(ws) == TRUE

\* for p in jobs: p.join() has returned for every process: none is running.
AllJoined(ws) == \A i \in 1..Len(ws) : ws[i].state # "running"

\* global_mappings_for_onto_multi_procs(num_procs) up to the joins: split the
\* ids, start one process per chunk.  Each process runs async_compute on its own
\* copy of the engine as it is now.
ParStart ==
    /\ pc = "run_start"
    /\ gm.num_procs > 0
    /\ LET src_ent_id_chunks == array_split(onto_size[src_onto], gm.num_procs)
       IN  workers' = [i \in 1..gm.num_procs |->
                          [chunk |-> src_ent_id_chunks[i], pos |-> 0,
                           store |-> current_global_mappings, result |-> <<>>,
                           state |-> "running", flag |-> flag,
                           src_onto |-> src_onto, tgt_onto |-> tgt_onto]]
    /\ return_dict' = <<>>
    /\ run_init' = current_global_mappings
    /\ run_flag' = flag
    /\ par_end' = "none"
    /\ pc' = "par"
    /\ UNCHANGED <<fixedVars, dirVars, disk, calls, mappings, gm, pos, since_save,
                   last_gap, restarts>>

\* One iteration of the loop of global_mappings_for_ent_chunk in worker i
\* (intermediate_saving = False), on the worker's copy of the store.
WorkerStep(i) ==
    /\ pc = "par"
    /\ i \in 1..Len(workers)
    /\ workers[i].state = "running"
    /\ workers[i].pos < Len(workers[i].chunk)
    /\ LET w == workers[i]
           src_ent_id == w.chunk[w.pos + 1]
           src_ent_name == idx2class(w.src_onto, src_ent_id)
           cur_mappings == global_mappings_for_ent(w.src_onto, w.tgt_onto, src_ent_id)
       IN  IF AlreadyComputed(w.store, src_ent_name)
           THEN /\ workers' = [workers EXCEPT ![i].pos = AfterSkip(w.pos, Len(w.chunk))]
                /\ gm' = gm
           ELSE \/ /\ workers' = [workers EXCEPT
                          ![i].store = add_many(w.store, cur_mappings.items).store,
                          ![i].result = Append(w.result, cur_mappings),
                          ![i].pos = w.pos + 1]
                   /\ gm' = gm
                \/ /\ workers' = [workers EXCEPT ![i].state = "failed"]
                   /\ gm' = [gm EXCEPT !.worker_failed = @ \cup {gm.run}]
    /\ UNCHANGED <<fixedVars, dirVars, disk, calls, mappings, pc, pos, since_save, last_gap,
                   restarts, return_dict, run_init, run_flag, par_end>>

\* return_dict[proc_idx] = (what the chunk loop returned); the process ends.
WorkerReturn(i) ==
    /\ pc = "par"
    /\ i \in 1..Len(workers)
    /\ workers[i].state = "running"
    /\ workers[i].pos >= Len(workers[i].chunk)
    /\ return_dict' = Append(return_dict, [proc_idx |-> i - 1, value |-> workers[i].result])
    /\ workers' = [workers EXCEPT ![i].state = "returned"]
    /\ UNCHANGED <<fixedVars, dirVars, disk, calls, mappings, pc, gm, pos, since_save,
                   last_gap, restarts, run_init, run_flag, par_end>>

\* Every join has returned: fold return_dict.values() into the store, log
\* "Task Finished", save, and global_match goes on; or the fold raises.
ParJoinFold ==
    /\ pc = "par"
    /\ AllJoined(workers)
    /\ LET r == fold_return_dict(current_global_mappings, ReturnDictValues(return_dict))
           a == after_run(gm.run, src_onto, tgt_onto, flag)
       IN  /\ mappings' = [mappings EXCEPT ![flag] = r.store]
           /\ IF r.raised
              THEN /\ pc' = "raised"
                   /\ par_end' = "raised"
                   /\ UNCHANGED <<dirVars, disk, gm>>
              ELSE /\ disk' = save_instance(disk, flag, "global_match", r.store)
                   /\ par_end' = "finished"
                   /\ src_onto' = a.src_onto
                   /\ tgt_onto' = a.tgt_onto
                   /\ flag' = a.flag
                   /\ pc' = a.pc
                   /\ gm' = [gm EXCEPT !.run = a.run,
                                       !.finished = @ \cup {gm.run},
                                       !.log = @ \o <<<<"persist", flag>>, a.log>>]
    /\ UNCHANGED <<fixedVars, calls, pos, since_save, last_gap, restarts, workers,
                   return_dict, run_init, run_flag>>

\* The process is killed during a sequential run and a fresh engine is built
\* over the same catalogs and saved_path: __init__ loads both stores.
Restart ==
    /\ pc = "seq"
    /\ Len(restarts) < MaxRestarts
    /\ src_onto' = "S"
    /\ tgt_onto' = "T"
    /\ flag' = "src2tgt"
    /\ mappings' = [f \in Flags |-> load_mappings(disk, f, "global_match", n_best)]
    /\ pc' = "idle"
    /\ gm' = NoGm
    /\ pos' = 0
    /\ since_save' = 0
    /\ last_gap' = 0
    /\ restarts' = Append(restarts,
          [flag |-> flag,
           iterated |-> pos,
           persisted |-> disk[<<"global_match", flag>>] = SavedFile(current_global_mappings)])
    /\ UNCHANGED <<fixedVars, disk, calls, parVars>>

Next ==
    \/ switch
    \/ \E np \in 0..MaxProcs : GlobalMatchCall(np)
    \/ SeqStart
    \/ SeqStep
    \/ SeqFinish
    \/ ParStart
    \/ \E i \in 1..MaxProcs : WorkerStep(i)
    \/ \E i \in 1..MaxProcs : WorkerReturn(i)
    \/ ParJoinFold

Spec == Init /\ [][Next]_vars

(***************************************************************************)
(* SpecSeq: sequential global_match over a longer catalog, with kills and  *)
(* resumed runs.                                                           *)
(***************************************************************************)
InitSeq == InitEngine(MaxSeqSrc)

NextSeq ==
    \/ GlobalMatchCall(0)
    \/ SeqStart
    \/ SeqStep
    \/ SeqFinish
    \/ Restart

SpecSeq == InitSeq /\ [][NextSeq]_vars

(***************************************************************************)
(* The claims about global_match.                                          *)
(***************************************************************************)
\* The catalogs in the source and target role while the flag is f.
SrcOf(f) == IF f = "src2tgt" THEN "S" ELSE "T"
TgtOf(f) == IF f = "src2tgt" THEN "T" ELSE "S"

\* The store one uninterrupted sequential run of direction f leaves when it
\* starts from `store`.
SequentialResult(store, f) == global_mappings_for_onto(store, SrcOf(f), TgtOf(f))

AllWorkersReturned == \A i \in 1..Len(workers) : workers[i].state = "returned"

\* C2: for a deterministic per-entity function and any num_procs >= 1, the
\* multi-process run leaves the active direction's store with the same ranked
\* content as the sequential run over the same catalog from the same initial
\* store.
C2_ParallelEqualsSequential ==
    (par_end # "none" /\ AllWorkersReturned) =>
        /\ par_end = "finished"
        /\ mappings[run_flag].ranked = SequentialResult(run_init, run_flag).ranked

\* The sequential step machine agrees with the operator SequentialResult: a
\* first global_match(None) that returned left both stores as SequentialResult
\* gives them from the empty store.
SequentialRunMatchesOperator ==
    (gm.num_procs = 0 /\ gm.finished = {1, 2} /\ calls = 1 /\ restarts = <<>>) =>
        \A f \in Flags : mappings[f] = SequentialResult(OntoMappings(n_best), f)

\* C3: a sequential run killed after K entities with the store persisted,
\* followed by a fresh engine that loads the checkpoints and runs over the whole
\* catalog, ends with the same final stores (in memory and on disk) as one
\* uninterrupted run from the same inputs.
C3_ResumeEqualsUninterrupted ==
    (restarts # <<>> /\ gm.finished = {1, 2}) =>
        \A f \in Flags :
            /\ mappings[f] = SequentialResult(OntoMappings(n_best), f)
            /\ disk[<<"global_match", f>>] = SavedFile(mappings[f])

\* C3's case: the kill came in the first direction after K entities, 0 < K < n,
\* with the store just persisted and not empty, and the resumed run returned.
C3_Witness ==
    /\ restarts # <<>>
    /\ gm.finished = {1, 2}
    /\ restarts[1].flag = "src2tgt"
    /\ restarts[1].persisted
    /\ restarts[1].iterated > 0
    /\ restarts[1].iterated < onto_size["S"]
    /\ Cardinality(DOMAIN mappings["src2tgt"].ranked) >= 2

\* C6: in a sequential chunk run with intermediate saving, no more than
\* save_step entities are computed between two consecutive checkpoint writes
\* (nor since the last one).
C6_SavedEverySaveStep ==
    /\ last_gap <= save_step
    /\ since_save <= save_step

\* C7: when a worker of a parallel run fails, the controller does not report
\* that direction as finished, and global_match does not go on to switch and
\* run the other direction.
C7_WorkerFailureStopsRun ==
    \A r \in gm.worker_failed :
        /\ r \notin gm.finished
        /\ r = 1 => gm.run # 2

\* The place of an event of the log in global_match's order; 0 for an event
\* that has no place in it.
EventPhase(ev) ==
    IF ev = <<"entity", "src2tgt", "S">> THEN 1
    ELSE IF ev = <<"persist", "src2tgt">> THEN 2
    ELSE IF ev = <<"switch", "tgt2src">> THEN 3
    ELSE IF ev = <<"entity", "tgt2src", "T">> THEN 4
    ELSE IF ev = <<"persist", "tgt2src">> THEN 5
    ELSE IF ev = <<"return", "src2tgt">> THEN 6
    ELSE 0

LogPhases == {EventPhase(gm.log[k]) : k \in 1..Len(gm.log)}

\* C8: global_match, called in any direction state, runs the two directions
\* strictly in sequence: the src2tgt run with its final persist, then the
\* switch, then the tgt2src run with its final persist, then the return with
\* the flag src2tgt; no entity of one direction is computed, by the controller
\* or by a worker, while the other direction is active.
C8_DirectionsInSequence ==
    /\ \A k \in 1..Len(gm.log) : EventPhase(gm.log[k]) >= 1
    /\ \A k \in 1..(Len(gm.log) - 1) :
          /\ EventPhase(gm.log[k]) <= EventPhase(gm.log[k + 1])
          /\ EventPhase(gm.log[k]) = EventPhase(gm.log[k + 1]) => EventPhase(gm.log[k]) \in {1, 4}
    /\ gm.run = 1 => /\ flag = "src2tgt" /\ src_onto = "S" /\ tgt_onto = "T"
                     /\ LogPhases \subseteq {1}
    /\ gm.run = 2 => /\ flag = "tgt2src" /\ src_onto = "T" /\ tgt_onto = "S"
                     /\ {2, 3} \subseteq LogPhases
                     /\ LogPhases \subseteq {1, 2, 3, 4}
    /\ 6 \in LogPhases => {2, 3, 5} \subseteq LogPhases
    /\ \A i \in 1..Len(workers) :
          (pc = "par" /\ workers[i].state = "running") =>
              /\ workers[i].flag = flag
              /\ workers[i].src_onto = SrcOf(flag)
              /\ workers[i].flag = IF gm.run = 1 THEN "src2tgt" ELSE "tgt2src"

\* C8's case: global_match was called while the flag was tgt2src, computed
\* entities in both directions and returned.
C8_Witness ==
    /\ gm.called_with = "tgt2src"
    /\ {1, 4, 6} \subseteq LogPhases
    /\ pc = "idle"

\* C8's parallel case: a worker of the second run is running.
C8_WitnessWorker ==
    /\ pc = "par"
    /\ gm.run = 2
    /\ \E i \in 1..Len(workers) : workers[i].state = "running" /\ workers[i].pos > 0

\* return_dict's items in proc_idx order.
RECURSIVE InProcOrder(_)
InProcOrder(items) ==
    IF items = {} THEN <<>>
    ELSE LET first == CHOOSE x \in items : \A y \in items : x.proc_idx <= y.proc_idx
         IN  <<first>> \o InProcOrder(items \ {first})

\* C9: the outcome of a parallel run does not depend on the order in which the
\* workers deposited their results in return_dict: the store, whether the fold
\* raised, and the checkpoint are those of the fold in proc_idx order.
C9_FoldOrderIndependent ==
    par_end # "none" =>
        LET canon == fold_return_dict(run_init,
                        ReturnDictValues(InProcOrder({return_dict[k] : k \in 1..Len(return_dict)})))
        IN  /\ mappings[run_flag] = canon.store
            /\ (par_end = "raised") = canon.raised
            /\ par_end = "finished" =>
                  disk[<<"global_match", run_flag>>] = SavedFile(canon.store)

\* C9's case: two workers deposited against their proc_idx order, one of them
\* with computed entities, and the controller has folded.
C9_Witness ==
    /\ par_end # "none"
    /\ Len(return_dict) >= 2
    /\ return_dict[1].proc_idx > return_dict[2].proc_idx
    /\ \E k \in 1..Len(return_dict) : return_dict[k].value # <<>>

(***************************************************************************)
(* SpecEnt: global_mappings_for_onto() of a concrete engine, whose          *)
(* global_mappings_for_ent follows the per-entity procedure: select the    *)
(* candidates, build the batches with batched_lab_products_for_ent, score  *)
(* each candidate group, return one mapping per group.  The chunk loop and *)
(* the batch construction are the source's.                                *)
(***************************************************************************)
\* Ontology.idx2labs: class i has one label, or two when i is odd.
NumLabs(i) == 1 + (i % 2)

\* idf_select_for_ent: the target classes that share a token with the source
\* entity, in id order here; none is a retrieval miss.
RECURSIVE idf_select_loop(_, _, _)
idf_select_loop(src_ent_id, t, n) ==
    IF t >= n THEN <<>>
    ELSE (IF ent_pair_score(scorer, src_ent_id, t) > 0 THEN <<t>> ELSE <<>>)
         \o idf_select_loop(src_ent_id, t + 1, n)

idf_select_for_ent(src_ent_id) == idf_select_loop(src_ent_id, 0, onto_size[tgt_onto])

\* One mapping per candidate group of the batches, in order.
ent_mappings_from_batches(src_ent_id, tgt_cands, bs) ==
    LET groups == BatchLens(bs)
    IN  [c \in 1..Min(Len(groups), Len(tgt_cands)) |->
            EntityMapping(idx2class(src_onto, src_ent_id), idx2class(tgt_onto, tgt_cands[c]),
                          ent_pair_score(scorer, src_ent_id, tgt_cands[c]))]

InitEnt ==
    /\ EngineBuilt(MaxSrc)
    /\ scorer >= 1
    /\ b_src_labs = <<>>
    /\ b_cand_labs = <<>>
    /\ batch_size \in 1..MaxBatchSize
    /\ lab_products = <<>>
    /\ product_lens = <<>>
    /\ batches = <<>>
    /\ cur_batch = NewBatch
    /\ cur_lab_pointer = 0
    /\ b_i = 0
    /\ b_pc = "returned"

entFixed == <<storeVars, inputVars, dirVars, n_best, p_call, renewed, save_step, gm, restarts, parVars>>
batchLocals == <<lab_products, product_lens, batches, cur_batch, cur_lab_pointer, b_i>>

\* global_mappings_for_onto() is called: the chunk loop starts.
EntChunkCall ==
    /\ pc = "idle"
    /\ calls < MaxCalls
    /\ calls' = calls + 1
    /\ pc' = "ent_chunk"
    /\ pos' = 0
    /\ UNCHANGED <<entFixed, batchVars, disk, mappings, since_save, last_gap>>

\* The head of one loop iteration: skip a stored entity, or enter
\* global_mappings_for_ent, which selects the candidates and calls
\* batched_lab_products_for_ent.
EntBegin ==
    /\ pc = "ent_chunk"
    /\ pos < onto_size[src_onto]
    /\ IF AlreadyComputed(current_global_mappings, idx2class(src_onto, pos))
       THEN /\ pos' = AfterSkip(pos, onto_size[src_onto])
            /\ UNCHANGED <<pc, batchVars>>
       ELSE LET tgt_cands == idf_select_for_ent(pos)
            IN  /\ b_src_labs' = LabList(NumLabs(pos))
                /\ b_cand_labs' = [c \in 1..Len(tgt_cands) |-> CandLabs(c, NumLabs(tgt_cands[c]))]
                /\ b_pc' = "start"
                /\ pc' = "ent_batch"
                /\ UNCHANGED <<pos, batch_size, batchLocals>>
    /\ UNCHANGED <<entFixed, disk, calls, mappings, since_save, last_gap>>

\* batched_lab_products_for_ent has returned (or an assertion of it failed):
\* the rest of the iteration, add_many, the append and the save test.
EntFold ==
    /\ pc = "ent_batch"
    /\ b_pc \in {"returned", "assert_failed"}
    /\ IF b_pc = "assert_failed"
       THEN /\ pc' = "raised"
            /\ UNCHANGED <<mappings, disk, pos, since_save, last_gap>>
       ELSE LET cur_mappings == ent_mappings_from_batches(pos, idf_select_for_ent(pos), batches)
                r == add_many(current_global_mappings, cur_mappings)
            IN  /\ mappings' = [mappings EXCEPT ![flag] = r.store]
                /\ IF SaveNow(TRUE, pos, save_step)
                   THEN /\ disk' = save_instance(disk, flag, "global_match", r.store)
                        /\ last_gap' = since_save + 1
                        /\ since_save' = 0
                   ELSE /\ disk' = disk
                        /\ last_gap' = last_gap
                        /\ since_save' = since_save + 1
                /\ pos' = pos + 1
                /\ pc' = IF r.raised THEN "raised" ELSE "ent_chunk"
    /\ UNCHANGED <<entFixed, batchVars, calls>>

\* The loop is over: save the store and return.
EntFinish ==
    /\ pc = "ent_chunk"
    /\ pos >= onto_size[src_onto]
    /\ disk' = save_instance(disk, flag, "global_match", current_global_mappings)
    /\ last_gap' = since_save
    /\ since_save' = 0
    /\ pc' = "idle"
    /\ UNCHANGED <<entFixed, batchVars, calls, mappings, pos>>

EntBatchStep ==
    /\ pc = "ent_batch"
    /\ (BatchStart \/ BatchLoopStep \/ BatchReturn)

NextEnt == EntChunkCall \/ EntBegin \/ EntBatchStep \/ EntFold \/ EntFinish

SpecEnt == InitEnt /\ [][NextEnt]_vars

\* C13: a retrieval miss is not an error: for an entity without candidates
\* the batch construction returns no batch and passes its assertions, the
\* entity leaves no mapping in the store, and the chunk loop goes on: every
\* iterated entity with candidates has its key in the store.
C13_RetrievalMissIsNoError ==
    /\ pc # "raised"
    /\ b_pc # "assert_failed"
    /\ (pc = "ent_batch" /\ b_pc = "returned" /\ idf_select_for_ent(pos) = <<>>) => batches = <<>>
    /\ pc \in {"ent_chunk", "ent_batch"} =>
          \A e \in 0..(pos - 1) :
              (idf_select_for_ent(e) = <<>>)
                  <=> (idx2class(src_onto, e) \notin DOMAIN current_global_mappings.ranked)

\* C13's case: the loop has passed an entity without candidates and stored the
\* mappings of a later one.
C13_Witness ==
    /\ pc = "ent_chunk"
    /\ \E e \in 0..(pos - 1) : \E e2 \in (e + 1)..(pos - 1) :
          /\ idf_select_for_ent(e) = <<>>
          /\ idx2class(src_onto, e2) \in DOMAIN current_global_mappings.ranked

(***************************************************************************)
(* SpecCalls: switch, renew, pair_score and global_match called in any     *)
(* order on one engine.                                                    *)
(***************************************************************************)
\* The direction does not depend on the scorer, n_best or save_step: one of
\* each, catalogs of every size.
InitCalls ==
    /\ Init
    /\ scorer = 1
    /\ n_best = 1
    /\ save_step = 1

NextCalls == Next \/ renew \/ PairScoreCall

SpecCalls == InitCalls /\ [][NextCalls]_vars

\* C14: renew(), called in any state reached through switch, pair_score and
\* global_match calls, ends after at most one switch (none when the flag was
\* src2tgt already), with the flag src2tgt and the catalogs given at
\* construction back in the source and target roles; in every state the two
\* roles hold the two given catalogs, one each, as the flag says.
C14_RenewRestoresDirection ==
    /\ renewed.made =>
          /\ renewed.switches = (IF renewed.from_flag = "src2tgt" THEN 0 ELSE 1)
          /\ (calls = renewed.after + 1 /\ pc = "idle") =>
                /\ flag = "src2tgt"
                /\ src_onto = "S"
                /\ tgt_onto = "T"
    /\ {src_onto, tgt_onto} = Catalogs
    /\ (flag = "src2tgt") <=> (src_onto = "S")

\* C14's case: renew() was called while the flag was tgt2src, after a
\* pair_score or a global_match call, and has returned.
C14_Witness ==
    /\ renewed.made
    /\ renewed.from_flag = "tgt2src"
    /\ renewed.switches = 1
    /\ calls = renewed.after + 1
    /\ p_call.made \/ gm.finished # {}

\* C15: in a parallel run every change of the engine's stores and every
\* checkpoint write is a step of the controller taken after all spawned workers
\* have terminated; no step taken while a worker is running changes them.
C15_StoreChangesAfterJoin ==
    [][(pc = "par" /\ (mappings' # mappings \/ disk' # disk)) =>
            \A i \in 1..Len(workers) : workers[i].state \in {"returned", "failed"}]_vars

\* C15's case: a parallel run of two workers ended with the checkpoint written
\* by the controller, after a worker had added mappings to its own copy of the
\* store.
C15_Witness ==
    /\ par_end = "finished"
    /\ Len(workers) >= 2
    /\ disk[<<"global_match", run_flag>>] = SavedFile(mappings[run_flag])
    /\ \E i \in 1..Len(workers) : workers[i].store # run_init

\* The ids of a catalog of n classes in catalog order.
IdList(n) == [k \in 1..n |-> k - 1]

\* C16: for every catalog size and every num_procs >= 1, also num_procs above
\* the number of entities, the parallel run splits the source ids into exactly
\* num_procs chunks that are contiguous and in catalog order (concatenated
\* they are the id list, so they are disjoint and cover every id once), whose
\* sizes differ by at most one, and starts one worker per chunk.
C16_ContiguousNearEqualChunks ==
    pc = "par" =>
        /\ Len(workers) = gm.num_procs
        /\ Flatten([i \in 1..Len(workers) |-> workers[i].chunk]) = IdList(onto_size[src_onto])
        /\ \A i, j \in 1..Len(workers) :
              Len(workers[i].chunk) - Len(workers[j].chunk) <= 1

\* C16's case: more than one worker over a catalog that does not divide
\* evenly.
C16_Witness ==
    /\ pc = "par"
    /\ Len(workers) >= 2
    /\ onto_size[src_onto] > Len(workers)
    /\ \E i, j \in 1..Len(workers) : Len(workers[i].chunk) # Len(workers[j].chunk)

\* C16's other case: more workers than entities, so a worker with an empty
\* chunk.
C16_WitnessEmptyChunk ==
    /\ pc = "par"
    /\ Len(workers) > onto_size[src_onto]
    /\ \E i \in 1..Len(workers) : workers[i].chunk = <<>>

\* The checkpoint of direction f holds, beyond the keys of `loaded`, the
\* mappings of a prefix of catalog order: no entity is in it while an earlier
\* entity that yields mappings is missing.
CheckpointIsPrefix(f, loaded) ==
    LET file == disk[<<"global_match", f>>]
        keys == DOMAIN file.obj.ranked
    IN  file.exists =>
            \A e \in Ids(SrcOf(f)) :
                (idx2class(SrcOf(f), e) \in keys \ DOMAIN loaded.ranked) =>
                    \A e1 \in 0..(e - 1) :
                        global_mappings_for_ent(SrcOf(f), TgtOf(f), e1).items # <<>>
                            => idx2class(SrcOf(f), e1) \in keys

\* C17: in sequential mode every checkpoint write of a direction stores the
\* in-memory store of that moment; what the checkpoint holds beyond the
\* entries loaded at start is the mappings of a prefix of the entities in
\* catalog order; and once the direction has ended its checkpoint equals the
\* final in-memory store.
C17_CheckpointsFollowOrder ==
    /\ [](pc = "seq" => CheckpointIsPrefix(flag, run_init))
    /\ [](\A run \in gm.finished :
              LET f == IF run = 1 THEN "src2tgt" ELSE "tgt2src"
              IN  disk[<<"global_match", f>>] = SavedFile(mappings[f]))
    /\ [][disk' # disk =>
              disk'[<<"global_match", flag>>] = SavedFile(mappings'[flag])]_vars

\* C17's case: an intermediate checkpoint of a resumed run that holds loaded
\* entries and a newly computed entity, while later entities are still to come.
C17_Witness ==
    /\ pc = "seq"
    /\ restarts # <<>>
    /\ pos < onto_size[src_onto]
    /\ run_init.ranked # EmptyRanked
    /\ disk[<<"global_match", flag>>].exists
    /\ DOMAIN disk[<<"global_match", flag>>].obj.ranked # DOMAIN run_init.ranked

\* The source keys of worker w's chunk.
ChunkKeys(w) == {idx2class(w.src_onto, w.chunk[k]) : k \in 1..Len(w.chunk)}

\* C18: a failed worker aborts only its own chunk's contribution: after the
\* join of a run in which a worker failed, the run ends normally and the
\* store folded and persisted by the controller holds the results of every
\* worker that completed, holds nothing new from a failed chunk, and keeps
\* every entry it held before the run.
C18_FailureAbortsOnlyOwnChunk ==
    (par_end # "none" /\ \E i \in 1..Len(workers) : workers[i].state = "failed") =>
        LET store == mappings[run_flag]
        IN  /\ par_end = "finished"
            /\ disk[<<"global_match", run_flag>>] = SavedFile(store)
            /\ \A i \in 1..Len(workers) : \A key \in ChunkKeys(workers[i]) :
                  IF workers[i].state = "returned"
                  THEN key \in DOMAIN workers[i].store.ranked =>
                          /\ key \in DOMAIN store.ranked
                          /\ store.ranked[key] = workers[i].store.ranked[key]
                  ELSE key \notin DOMAIN run_init.ranked => key \notin DOMAIN store.ranked
            /\ \A key \in DOMAIN run_init.ranked :
                  key \in DOMAIN store.ranked /\ store.ranked[key] = run_init.ranked[key]

\* C19: no batch is empty of candidate groups; every batch other than the
\* last holds more than batch_size label pairs, and at most batch_size once
\* its last group is removed.
C19_OnlyLastBatchNotFull ==
    b_pc = "returned" =>
        \A k \in 1..Len(batches) :
            LET lens == batches[k].lens
            IN  /\ Len(lens) >= 1
                /\ k < Len(batches) =>
                      /\ Len(batches[k].labs) > batch_size
                      /\ SumSeq(SubSeq(lens, 1, Len(lens) - 1)) <= batch_size

\* The same shape, asked of the non-negative batch sizes only.
BatchShapeForNonNegativeSize ==
    batch_size >= 0 => C19_OnlyLastBatchNotFull

\* Every entry of store is a mapping of direction f: its source key is a class
\* of the catalog in the source role under f, its targets are classes of the
\* other catalog.
StoreOfDirection(store, f) ==
    \A key \in DOMAIN store.ranked :
        /\ key[1] = SrcOf(f)
        /\ \A k \in 1..Len(store.ranked[key]) : store.ranked[key][k][1][1] = TgtOf(f)

\* A step that leaves the other direction's store and every checkpoint but
\* global_match/flag as they are, and writes there nothing but the flag's store.
TouchesOnlyActiveDirection ==
    /\ mappings'[NextFlag(flag)] = mappings[NextFlag(flag)]
    /\ \A path \in (Modes \X Flags) \ {<<"global_match", flag>>} : disk'[path] = disk[path]
    /\ disk' # disk => disk'[<<"global_match", flag>>] = SavedFile(mappings'[flag])

\* C20: direction isolation.  While a run is under way with the flag d, no
\* step changes the other direction's store or any checkpoint other than
\* global_match/d, and what is written there is the d store; each store and
\* each checkpoint only ever holds mappings of its own direction, so the run
\* reads and extends the d store only.
C20_DirectionIsolation ==
    /\ [](\A f \in Flags :
              /\ StoreOfDirection(mappings[f], f)
              /\ StoreOfDirection(disk[<<"global_match", f>>].obj, f))
    /\ [][(pc = "seq" \/ pc = "par") => TouchesOnlyActiveDirection]_vars

\* C20's case: both directions have run, each store holds entries, and each
\* checkpoint is its own direction's store.
C20_Witness ==
    /\ gm.finished = {1, 2}
    /\ \A f \in Flags :
          /\ mappings[f].ranked # EmptyRanked
          /\ disk[<<"global_match", f>>] = SavedFile(mappings[f])
    /\ mappings["src2tgt"] # mappings["tgt2src"]

\* The number of per-entity computations the log records.
EntityEvents(log) == Len(SelectSeq(log, LAMBDA ev : ev[1] = "entity"))

\* One iteration of the sequential chunk loop that went on to the next id: an
\* entity whose key is in the store is passed without a computation and
\* without a change of any store or checkpoint; any other entity is computed.
SkipByKeyPresence ==
    LET key == idx2class(src_onto, pos)
    IN  IF key \in DOMAIN mappings[flag].ranked
        THEN /\ EntityEvents(gm'.log) = EntityEvents(gm.log)
             /\ mappings' = mappings
             /\ disk' = disk
        ELSE EntityEvents(gm'.log) = EntityEvents(gm.log) + 1

\* C21: the resume skip is decided by the presence of the source key in the
\* store's ranked map alone: an entity whose key is present is skipped without
\* a computation and with its entries unchanged, however many it holds; an
\* entity whose result is empty never has a key in the store, so every later
\* run or resume computes it again.
C21_SkipDecidedByKeyPresence ==
    /\ [][(pc = "seq" /\ pc' = "seq" /\ pos' # pos) => SkipByKeyPresence]_vars
    /\ [](\A f \in Flags : \A e \in Ids(SrcOf(f)) :
              global_mappings_for_ent(SrcOf(f), TgtOf(f), e).items = <<>>
                  => idx2class(SrcOf(f), e) \notin DOMAIN mappings[f].ranked)

\* C21's case: a resumed run has passed an entity stored before the kill and
\* has computed again an entity with an empty result that the killed run had
\* computed already.
C21_Witness ==
    /\ pc = "seq"
    /\ restarts # <<>>
    /\ restarts[1].flag = flag
    /\ EntityEvents(gm.log) >= 1
    /\ \E e, e0 \in 0..(pos - 1) :
          /\ e < restarts[1].iterated
          /\ e0 < restarts[1].iterated
          /\ idx2class(src_onto, e) \in DOMAIN run_init.ranked
          /\ global_mappings_for_ent(src_onto, tgt_onto, e0).items = <<>>

\* C21's other case: the skipped entity holds two entries.
C21_WitnessTwoEntries ==
    /\ pc = "seq"
    /\ restarts # <<>>
    /\ restarts[1].flag = flag
    /\ \E e \in 0..(pos - 1) :
          /\ idx2class(src_onto, e) \in DOMAIN run_init.ranked
          /\ Len(run_init.ranked[idx2class(src_onto, e)]) = 2

=============================================================================
